---- MODULE Spec2Model ----
(***************************************************************************)
(* Model of code_search.py: a PyQt front end that runs ripgrep in a root   *)
(* directory, groups its "path:line:text" output by file in a tree, paints *)
(* the keyword in red and opens the activated item in an editor.           *)
(*                                                                         *)
(* A Python str is a sequence of one-character strings.  The alphabet of   *)
(* the model is letters, digits, "-", "+", "/", ":", " " and "\n"; of the  *)
(* characters str.strip() and int() treat as whitespace only " " and "\n"  *)
(* are in it, and the "_" digit separator int() accepts is not.            *)
(***************************************************************************)
EXTENDS Integers, Sequences, FiniteSets, TLC

VARIABLES
    path_input,   \* text of the root-path QLineEdit
    query_input,  \* text of the keyword QLineEdit
    settings,     \* QSettings value "last_sdk_path"
    tree,         \* QTreeWidget: top-level items with their children
    delegate,     \* self.delegate: None or the keyword of a HighlightDelegate
    files,        \* the dict the tree was filled from, in insertion order
    alive,        \* FALSE once an uncaught exception has aborted the process
    last,         \* the handler that ran last
    \* what the handler that ran last did, None or empty for the other handlers:
    rg,           \* perform_search: how ripgrep ended, "notrun" if it was not run
    results,      \* perform_search: the raw output of ripgrep
    outcome,      \* perform_search: the way the handler ended
    hadItems,     \* perform_search: whether the tree it cleared had items
    dialog,       \* browse_path: what getExistingDirectory returned
    item,         \* open_file_location: its item, <<file index, child index or 0>>
    editor,       \* open_file_location: the parts of its os.system command
    painted       \* paint: its index.data(), keyword and drawText calls

vars == <<path_input, query_input, settings, tree, delegate, files, alive, last,
          rg, results, outcome, hadItems, dialog, item, editor, painted>>

None == <<"None">>

-----------------------------------------------------------------------------
(* Python built-ins used by the program.                                   *)

IsSpace(c) == c \in {" ", "\n"}

RECURSIVE lstrip(_)
lstrip(s) == IF s # <<>> /\ IsSpace(Head(s)) THEN lstrip(Tail(s)) ELSE s

RECURSIVE rstrip(_)
rstrip(s) ==
    IF s # <<>> /\ IsSpace(s[Len(s)]) THEN rstrip(SubSeq(s, 1, Len(s) - 1)) ELSE s

\* str.strip()
strip(s) == rstrip(lstrip(s))

\* str.find(sub) + 1: the first position where sub occurs in s, 0 if none
find(s, sub) ==
    LET hits == {i \in 1..(Len(s) - Len(sub) + 1) : SubSeq(s, i, i + Len(sub) - 1) = sub}
    IN  IF hits = {} THEN 0 ELSE CHOOSE i \in hits : \A j \in hits : i <= j

\* sub in s
contains(s, sub) == find(s, sub) # 0

\* str.split(sep, maxsplit) for a non-empty sep; maxsplit < 0 is "no limit"
RECURSIVE split(_, _, _)
split(s, sep, maxsplit) ==
    LET i == find(s, sep)
    IN  IF maxsplit = 0 \/ i = 0
        THEN <<s>>
        ELSE <<SubSeq(s, 1, i - 1)>>
             \o split(SubSeq(s, i + Len(sep), Len(s)), sep, maxsplit - 1)

Digits == {"0", "1", "2", "3", "4", "5", "6", "7", "8", "9"}

DigitVal(c) ==
    CASE c = "0" -> 0 [] c = "1" -> 1 [] c = "2" -> 2 [] c = "3" -> 3
      [] c = "4" -> 4 [] c = "5" -> 5 [] c = "6" -> 6 [] c = "7" -> 7
      [] c = "8" -> 8 [] c = "9" -> 9

RECURSIVE DecVal(_)
DecVal(ds) ==
    IF ds = <<>> THEN 0
    ELSE 10 * DecVal(SubSeq(ds, 1, Len(ds) - 1)) + DigitVal(ds[Len(ds)])

\* int(s): surrounding whitespace and one sign are accepted; anything else
\* than a non-empty run of digits raises ValueError (ok = FALSE)
int(s) ==
    LET t      == strip(s)
        signed == t # <<>> /\ Head(t) \in {"-", "+"}
        ds     == IF signed THEN Tail(t) ELSE t
        ok     == ds # <<>> /\ \A k \in 1..Len(ds) : ds[k] \in Digits
    IN  [ok  |-> ok,
         val |-> IF ~ok THEN 0
                 ELSE IF signed /\ Head(t) = "-" THEN 0 - DecVal(ds) ELSE DecVal(ds)]

DigitChar(d) ==
    CASE d = 0 -> "0" [] d = 1 -> "1" [] d = 2 -> "2" [] d = 3 -> "3"
      [] d = 4 -> "4" [] d = 5 -> "5" [] d = 6 -> "6" [] d = 7 -> "7"
      [] d = 8 -> "8" [] d = 9 -> "9"

RECURSIVE StrNat(_)
StrNat(n) == IF n < 10 THEN <<DigitChar(n)>> ELSE StrNat(n \div 10) \o <<DigitChar(n % 10)>>

\* str(n), as the f-string formats an int
str(n) == IF n < 0 THEN <<"-">> \o StrNat(0 - n) ELSE StrNat(n)

\* os.path.join(a, b) of posixpath
join(a, b) ==
    IF b # <<>> /\ Head(b) = "/" THEN b
    ELSE IF a = <<>> \/ a[Len(a)] = "/" THEN a \o b
    ELSE a \o <<"/">> \o b

-----------------------------------------------------------------------------
(* HighlightDelegate                                                       *)

\* the drawText calls of the split branch of paint: the segments in the text
\* colour, the keyword in red between two of them
RECURSIVE draw(_, _)
draw(segments, keyword) ==
    IF Len(segments) = 1
    THEN <<[text |-> segments[1], pen |-> "text"]>>
    ELSE <<[text |-> segments[1], pen |-> "text"], [text |-> keyword, pen |-> "red"]>>
         \o draw(Tail(segments), keyword)

\* paint with only the first occurrence of the keyword split off
paint_first(data, keyword) ==
    LET text == IF data = None THEN <<>> ELSE data
    IN  IF keyword = <<>> \/ ~contains(text, keyword)
        THEN <<[text |-> text, pen |-> "text"]>>
        ELSE draw(split(text, keyword, 1), keyword)

\* HighlightDelegate.paint on an index whose data() is data: what is drawn
paint(data, keyword) ==
    LET text == IF data = None THEN <<>> ELSE data
    IN  IF keyword = <<>> \/ ~contains(text, keyword)
        THEN <<[text |-> text, pen |-> "text"]>>
        ELSE draw(split(text, keyword, -1), keyword)

-----------------------------------------------------------------------------
(* RipgrepTreeViewer.perform_search, its pieces                            *)

\* the input check with "and" for "or"
MissingInput_both(keyword, root_path) == keyword = <<>> /\ root_path = <<>>

\* the input check
MissingInput(keyword, root_path) == keyword = <<>> \/ root_path = <<>>

\* a clear() that leaves the items in place
clear_kept(t) == t

\* QTreeWidget.clear()
clear(t) == <<>>

\* the except clauses without the one for FileNotFoundError
caught_nonzero(kind) == kind = "nonzero"

\* the except clauses: the runner failures that end the handler
caught(kind) == kind \in {"nonzero", "notfound"}

\* the lines the loop iterates over
lines_of(output) == split(strip(output), <<"\n">>, -1)

\* the text stored for a match
code_of(parts) == strip(parts[3])

\* the split of one line on every colon
parts_of_all(line) == split(line, <<":">>, -1)

\* the split of one line
parts_of(line) == split(line, <<":">>, 2)

\* files[fullpath].append(m), the key created at the end when it is new
append_to(fs, fullpath, m) ==
    IF \E i \in 1..Len(fs) : fs[i].path = fullpath
    THEN [i \in 1..Len(fs) |->
            IF fs[i].path = fullpath
            THEN [fs[i] EXCEPT !.lines = Append(@, m)]
            ELSE fs[i]]
    ELSE Append(fs, [path |-> fullpath, lines |-> <<m>>])

\* one iteration of the loop over the lines; raised is int()'s ValueError
add_match(acc, line, root_path) ==
    IF acc.raised \/ ~contains(line, <<":">>) THEN acc
    ELSE LET parts == parts_of(line)
         IN  IF Len(parts) < 3 THEN acc
             ELSE LET fullpath == join(root_path, parts[1])
                      lineno   == int(parts[2])
                  IN  IF ~lineno.ok
                      THEN [raised |-> TRUE, files |-> <<>>]
                      ELSE [raised |-> FALSE,
                            files  |-> append_to(acc.files, fullpath,
                                                 <<lineno.val, code_of(parts)>>)]

RECURSIVE parse_from(_, _, _)
parse_from(acc, lines, root_path) ==
    IF lines = <<>> THEN acc
    ELSE parse_from(add_match(acc, Head(lines), root_path), Tail(lines), root_path)

\* the loop that builds files from the raw output
parse(output, root_path) ==
    parse_from([raised |-> FALSE, files |-> <<>>], lines_of(output), root_path)

\* the tree items made from files, added to the tree t
add_items(t, fs) ==
    t \o [i \in 1..Len(fs) |->
            [text0    |-> fs[i].path,
             children |-> [j \in 1..Len(fs[i].lines) |->
                             [text0 |-> fs[i].path \o <<":">> \o str(fs[i].lines[j][1]),
                              text1 |-> fs[i].lines[j][2]]]]]

-----------------------------------------------------------------------------
(* RipgrepTreeViewer, the handlers                                         *)

NoSearch ==
    /\ rg' = "notrun"
    /\ results' = <<>>
    /\ outcome' = "none"
    /\ hadItems' = FALSE

NoBrowse == dialog' = None

\* no editor command
NoCommand == [goto |-> FALSE, filepath |-> None, lineno |-> None]

\* nothing painted
NoDrawing == [data |-> None, keyword |-> None, drawn |-> <<>>]

NoOpen == item' = None /\ editor' = NoCommand

NoPaint == painted' = NoDrawing

\* perform_search, ripgrep ending as out: [kind, output]
perform_search(out) ==
    LET keyword   == strip(query_input)
        root_path == strip(path_input)
        parsed    == parse(out.output, root_path)
    IN  /\ alive
        /\ last' = "search"
        /\ hadItems' = (tree # <<>>)
        /\ NoBrowse /\ NoOpen /\ NoPaint
        /\ UNCHANGED <<path_input, query_input>>
        /\ IF MissingInput(keyword, root_path)
           THEN /\ outcome' = "warn"
                /\ rg' = "notrun"
                /\ tree' = clear(tree)
                /\ results' = <<>>
                /\ files' = <<>>
                /\ UNCHANGED <<settings, delegate, alive>>
           ELSE /\ settings' = root_path
                /\ rg' = out.kind
                /\ IF caught(out.kind)
                   THEN /\ outcome' = "failed"
                        /\ tree' = clear(tree)
                        /\ results' = <<>>
                        /\ files' = <<>>
                        /\ UNCHANGED <<delegate, alive>>
                   ELSE /\ results' = out.output
                        /\ IF parsed.raised
                           THEN /\ outcome' = "raised"
                                /\ tree' = clear(tree)
                                /\ files' = <<>>
                                /\ alive' \in BOOLEAN
                                /\ UNCHANGED delegate
                           ELSE /\ outcome' = "shown"
                                /\ files' = parsed.files
                                /\ tree' = add_items(clear(tree), parsed.files)
                                /\ delegate' = keyword
                                /\ UNCHANGED alive

\* browse_path without its save_last_path call
browse_path_unsaved(path) ==
    /\ alive
    /\ last' = "browse"
    /\ dialog' = path
    /\ IF path # <<>>
       THEN path_input' = path /\ UNCHANGED settings
       ELSE UNCHANGED <<path_input, settings>>
    /\ NoSearch /\ NoOpen /\ NoPaint
    /\ UNCHANGED <<query_input, tree, delegate, files, alive>>

\* browse_path, the dialog returning path ("" when cancelled)
browse_path(path) ==
    /\ alive
    /\ last' = "browse"
    /\ dialog' = path
    /\ IF path # <<>>
       THEN path_input' = path /\ settings' = path
       ELSE UNCHANGED <<path_input, settings>>
    /\ NoSearch /\ NoOpen /\ NoPaint
    /\ UNCHANGED <<query_input, tree, delegate, files, alive>>

\* the user edits the root-path field
edit_path(text) ==
    /\ alive
    /\ path_input # text
    /\ last' = "edit"
    /\ path_input' = text
    /\ NoSearch /\ NoBrowse /\ NoOpen /\ NoPaint
    /\ UNCHANGED <<query_input, settings, tree, delegate, files, alive>>

\* the user edits the keyword field
edit_query(text) ==
    /\ alive
    /\ query_input # text
    /\ last' = "edit"
    /\ query_input' = text
    /\ NoSearch /\ NoBrowse /\ NoOpen /\ NoPaint
    /\ UNCHANGED <<path_input, settings, tree, delegate, files, alive>>

\* item.text(0) of the item at <<i, j>>: file i, its child j or itself (j = 0)
text0_of(t, i, j) == IF j = 0 THEN t[i].text0 ELSE t[i].children[j].text0

\* the os.system command open_file_location builds from item.text(0)
editor_command(text) ==
    IF contains(text, <<":">>)
    THEN LET parts == split(text, <<":">>, 1)
         IN  [goto |-> TRUE, filepath |-> parts[1], lineno |-> parts[2]]
    ELSE [goto |-> FALSE, filepath |-> text, lineno |-> <<>>]

\* open_file_location on the item at <<i, j>>
open_file_location(i, j) ==
    /\ alive
    /\ i \in 1..Len(tree)
    /\ j \in 0..Len(tree[i].children)
    /\ last' = "open"
    /\ item' = <<i, j>>
    /\ editor' = editor_command(text0_of(tree, i, j))
    /\ NoSearch /\ NoBrowse /\ NoPaint
    /\ UNCHANGED <<path_input, query_input, settings, tree, delegate, files, alive>>

\* the view paints column 1 of a row whose data() is data
paint_cell(data) ==
    /\ alive
    /\ delegate # None
    /\ last' = "paint"
    /\ painted' = [data |-> data, keyword |-> delegate, drawn |-> paint(data, delegate)]
    /\ NoSearch /\ NoBrowse /\ NoOpen
    /\ UNCHANGED <<path_input, query_input, settings, tree, delegate, files, alive>>

-----------------------------------------------------------------------------
(* Inputs                                                                  *)

MaxLines == 2
MaxParseLines == 2
MaxTextLen == 4
MaxKeywordLen == 2

\* all sequences over S of length at most n
SeqsUpTo(S, n) == UNION {[1..k -> S] : k \in 0..n}

RECURSIVE JoinLines(_)
JoinLines(ls) ==
    IF ls = <<>> THEN <<>>
    ELSE IF Len(ls) = 1 THEN ls[1]
    ELSE ls[1] \o <<"\n">> \o JoinLines(Tail(ls))

\* what ripgrep may print: up to n of the lines L, the last one ended or not
RawOutputs(L, n) ==
    {JoinLines(ls) \o end : ls \in SeqsUpTo(L, n), end \in {<<>>, <<"\n">>}}

\* how a ripgrep run may end
Runs(L, n) ==
    {[kind |-> "nonzero", output |-> <<>>], [kind |-> "notfound", output |-> <<>>]}
    \cup {[kind |-> "exit0", output |-> r] : r \in RawOutputs(L, n)}

\* a:3:x    b:12:a:a    a:z:x
GuiLines ==
    { <<"a", ":", "3", ":", "x">>,
      <<"b", ":", "1", "2", ":", "a", ":", "a">>,
      <<"a", ":", "z", ":", "x">> }

\* a:3:x   b:5:y   a:9: x:y    a:1:x (a space first)   /b:1:x   x   a:1
\* (empty)   a:z:x   a::x   a:0:x   a:-1:x
ParseLines ==
    { <<"a", ":", "3", ":", "x">>,
      <<"b", ":", "5", ":", "y">>,
      <<"a", ":", "9", ":", " ", "x", ":", "y", " ">>,
      <<" ", "a", ":", "1", ":", "x">>,
      <<"/", "b", ":", "1", ":", "x">>,
      <<"x">>,
      <<"a", ":", "1">>,
      <<>>,
      <<"a", ":", "z", ":", "x">>,
      <<"a", ":", ":", "x">>,
      <<"a", ":", "0", ":", "x">>,
      <<"a", ":", "-", "1", ":", "x">> }

\* "/r", "r/"
ParseRoots == { <<"/", "r">>, <<"r", "/">> }

\* the texts over a and b of at most n characters
TextsUpTo(n) == SeqsUpTo({"a", "b"}, n)

\* what index.data() may be
CellData == TextsUpTo(MaxTextLen) \cup {None}

\* "", " /r", "/r:s"
PathTexts == { <<>>, <<" ", "/", "r">>, <<"/", "r", ":", "s">> }

\* "", " ", "a ", "b"
QueryTexts == { <<>>, <<" ">>, <<"a", " ">>, <<"b">> }

\* "" (cancelled), "/d"
DialogPaths == { <<>>, <<"/", "d">> }

\* "", "/r"
SavedPaths == { <<>>, <<"/", "r">> }

-----------------------------------------------------------------------------
(* The application                                                         *)

\* an idle window with an empty tree
Window(saved, query, highlight) ==
    /\ settings = saved
    /\ path_input = saved
    /\ query_input = query
    /\ tree = <<>>
    /\ delegate = highlight
    /\ alive = TRUE
    /\ last = "init"
    /\ rg = "notrun"
    /\ results = <<>>
    /\ files = <<>>
    /\ outcome = "none"
    /\ hadItems = FALSE
    /\ dialog = None
    /\ item = None
    /\ editor = NoCommand
    /\ painted = NoDrawing

\* __init__, load_last_path included; saved is the persisted setting
Constructed(saved) == Window(saved, <<>>, None)

Init == \E saved \in SavedPaths : Constructed(saved)

Next ==
    \/ \E text \in PathTexts : edit_path(text)
    \/ \E text \in QueryTexts : edit_query(text)
    \/ \E path \in DialogPaths : browse_path(path)
    \/ \E out \in Runs(GuiLines, MaxLines) : perform_search(out)
    \/ \E i \in 1..Len(tree) : \E j \in 0..Len(tree[i].children) : open_file_location(i, j)

Spec == Init /\ [][Next]_vars

\* one search in a window whose fields have been filled in
InitParse == \E root \in ParseRoots : Window(root, <<"a">>, None)

NextParse ==
    \E out \in Runs(ParseLines, MaxParseLines) : last = "init" /\ perform_search(out)

SpecParse == InitParse /\ [][NextParse]_vars

\* the view painting cells through a HighlightDelegate(keyword)
InitPaint == \E keyword \in TextsUpTo(MaxKeywordLen) : Window(<<>>, <<>>, keyword)

NextPaint == \E data \in CellData : paint_cell(data)

SpecPaint == InitPaint /\ [][NextPaint]_vars

-----------------------------------------------------------------------------
(* The vocabulary of the properties, defined on positions, not by split    *)
(* and strip.                                                              *)

Least(S) == CHOOSE k \in S : \A m \in S : k <= m

Greatest(S) == CHOOSE k \in S : \A m \in S : m <= k

Colons(line) == {k \in 1..Len(line) : line[k] = ":"}

FirstColon(line) == Least(Colons(line))

SecondColon(line) == Least(Colons(line) \ {FirstColon(line)})

\* the line has the three segments path:number:text
ThreeParts(line) == Cardinality(Colons(line)) >= 2

FilePathPart(line) == SubSeq(line, 1, FirstColon(line) - 1)

LineNumberPart(line) == SubSeq(line, FirstColon(line) + 1, SecondColon(line) - 1)

Remainder(line) == SubSeq(line, SecondColon(line) + 1, Len(line))

\* s without its leading and trailing whitespace
Trimmed(s) ==
    LET inked == {k \in 1..Len(s) : ~IsSpace(s[k])}
    IN  IF inked = {} THEN <<>> ELSE SubSeq(s, Least(inked), Greatest(inked))

\* the raw output split on line breaks, less the empty line a final newline leaves
RawLines(output) ==
    LET ls == split(output, <<"\n">>, -1)
    IN  IF ls[Len(ls)] = <<>> THEN SubSeq(ls, 1, Len(ls) - 1) ELSE ls

\* three segments, the middle one a number
WellFormed(line) == ThreeParts(line) /\ int(LineNumberPart(line)).ok

\* as WellFormed, the number positive
Positive(line) == WellFormed(line) /\ int(LineNumberPart(line)).val > 0

\* the elements of seq in the order of their first occurrence
FirstSeen(seq) ==
    LET F[i \in 0..Len(seq)] ==
            IF i = 0 THEN <<>>
            ELSE IF \E j \in 1..(i - 1) : seq[j] = seq[i] THEN F[i - 1]
            ELSE Append(F[i - 1], seq[i])
    IN  F[Len(seq)]

FullPath(line, root) == join(root, FilePathPart(line))

MatchOf(line) == <<int(LineNumberPart(line)).val, Trimmed(Remainder(line))>>

\* the lines ls grouped by full path: files in first-seen order, each with the
\* matches of its lines in the order of ls
Grouped(ls, root) ==
    LET order == FirstSeen([k \in 1..Len(ls) |-> FullPath(ls[k], root)])
    IN  [i \in 1..Len(order) |->
            LET own == SelectSeq(ls, LAMBDA l : FullPath(l, root) = order[i])
            IN  [path |-> order[i], lines |-> [k \in 1..Len(own) |-> MatchOf(own[k])]]]

\* the tree shows fs: a top-level item per file, a child per match, in order
Shows(t, fs) ==
    /\ Len(t) = Len(fs)
    /\ \A i \in 1..Len(fs) :
        /\ t[i].text0 = fs[i].path
        /\ Len(t[i].children) = Len(fs[i].lines)
        /\ \A j \in 1..Len(fs[i].lines) : t[i].children[j].text1 = fs[i].lines[j][2]

RECURSIVE Concat(_)
Concat(ss) == IF ss = <<>> THEN <<>> ELSE Head(ss) \o Concat(Tail(ss))

MatchCount(fs) == Len(Concat([i \in 1..Len(fs) |-> fs[i].lines]))

Searched == last = "search" /\ rg = "exit0"

-----------------------------------------------------------------------------
(* Properties                                                              *)

\* C1: for every raw output and root, when ripgrep has succeeded the files
\* built by perform_search are the well-formed lines of the raw output grouped
\* by join(root, filePathPart): the files in the order their paths are first
\* seen, each file's (lineNumber, text) pairs in the order of their lines, one
\* pair per well-formed line, and the tree shows the files in that order.
C1_GroupedInOrder ==
    Searched =>
        /\ files = Grouped(SelectSeq(RawLines(results), WellFormed), strip(path_input))
        /\ Shows(tree, files)

\* C2: parsing never fails: when ripgrep has succeeded the handler ends with
\* a result, which holds one match for each line with a positive line number
\* and none for the others, so every stored line number is positive, and an
\* empty raw output gives an empty result.
C2_BadNumbersSkipped ==
    Searched =>
        /\ outcome = "shown"
        /\ MatchCount(files) = Len(SelectSeq(RawLines(results), Positive))
        /\ \A i \in 1..Len(files) : \A j \in 1..Len(files[i].lines) :
              files[i].lines[j][1] > 0
        /\ results = <<>> => files = <<>>

\* C3: the lines of the raw output with fewer than three colon-separated
\* segments contribute nothing and raise no error, and their presence changes
\* nothing of what the other lines contribute: the search ends as it would on
\* the raw output without those lines, with the same files.
C3_MalformedLinesInert ==
    Searched =>
        LET others == SelectSeq(RawLines(results), ThreeParts)
            alone  == parse(JoinLines(others), strip(path_input))
        IN  /\ (outcome = "raised") = alone.raised
            /\ files = alone.files

\* what the search that has just run groups from its own raw output: nothing
\* when ripgrep failed or was not run, or when int() raised
FreshFiles ==
    LET now == parse(results, strip(path_input))
    IN  IF rg = "exit0" /\ ~now.raised THEN now.files ELSE <<>>

\* C4: the tree is always the result of the most recent search alone: a
\* search leaves exactly the items of the files grouped from its own raw
\* output (none when it produced no result), with nothing kept from an
\* earlier search, and no other handler changes the tree.
C4_FreshPerSearch ==
    /\ [](last = "search" => tree = add_items(<<>>, FreshFiles))
    /\ [][last' # "search" => tree' = tree]_vars

\* C4, its case: a search that shows a result in a tree that had items
C4_Witness == last = "search" /\ hadItems /\ outcome = "shown" /\ tree # <<>>

\* the positions of text where keyword occurs
Occurrences(text, keyword) ==
    {p \in 1..(Len(text) - Len(keyword) + 1) :
        \A k \in 1..Len(keyword) : text[p + k - 1] = keyword[k]}

\* where segment n of the drawn sequence d starts in the text
StartOf(d, n) == 1 + Len(Concat([k \in 1..(n - 1) |-> d[k].text]))

\* C5: the segments drawn for a text and a keyword concatenate to the text;
\* for an empty keyword or one that does not occur, they are the whole text
\* as one segment in the text colour; otherwise every red segment is the
\* keyword, placed at its leftmost occurrence that starts after the previous
\* red segment, no occurrence is left after the last one, and no segment in
\* the text colour contains the keyword.
C5_HighlightSplit ==
    last = "paint" =>
        LET text    == IF painted.data = None THEN <<>> ELSE painted.data
            keyword == painted.keyword
            d       == painted.drawn
            reds    == {n \in 1..Len(d) : d[n].pen = "red"}
            \* where the search for the red segment n, or for the end, begins
            From(n) == LET before == {m \in reds : m < n}
                       IN  IF before = {} THEN 1
                           ELSE StartOf(d, Greatest(before)) + Len(keyword)
        IN  /\ Concat([n \in 1..Len(d) |-> d[n].text]) = text
            /\ IF keyword = <<>> \/ Occurrences(text, keyword) = {}
               THEN d = <<[text |-> text, pen |-> "text"]>>
               ELSE /\ \A n \in reds :
                        /\ d[n].text = keyword
                        /\ StartOf(d, n) =
                             Least({p \in Occurrences(text, keyword) : p >= From(n)})
                    /\ {p \in Occurrences(text, keyword) : p >= From(Len(d) + 1)} = {}
                    /\ \A n \in (1..Len(d)) \ reds :
                        /\ d[n].pen = "text"
                        /\ Occurrences(d[n].text, keyword) = {}

\* C5, its case: overlapping occurrences, aa in aaa, drawn as aa in red and a
C5_Witness ==
    /\ last = "paint"
    /\ painted.data = <<"a", "a", "a">>
    /\ painted.keyword = <<"a", "a">>
    /\ Cardinality({n \in 1..Len(painted.drawn) : painted.drawn[n].pen = "red"}) = 1

\* the matches of the files fs, with the tree text shown for each
Stored(fs, t) ==
    UNION {{[path  |-> fs[i].path,
             match |-> fs[i].lines[j],
             shown |-> t[i].children[j].text1] : j \in 1..Len(fs[i].lines)} :
           i \in 1..Len(fs)}

C7_FailedRunShowsNothing ==
    [][ (last' = "search" /\ rg' \in {"nonzero", "notfound"}) =>
            /\ tree' = <<>>
            /\ files' = <<>>
            /\ delegate' = delegate ]_vars

\* C7, its case: a failed run for another keyword than the highlighted one,
\* in a tree that had items
C7_Witness ==
    /\ last = "search" /\ rg \in {"nonzero", "notfound"}
    /\ hadItems /\ tree = <<>>
    /\ delegate # None /\ delegate # strip(query_input)

\* C8: after a search triggered with a keyword or a root path that is empty
\* once trimmed, ripgrep has not been run and the tree and files are empty.
C8_MissingInputAborts ==
    (last = "search" /\ (Trimmed(query_input) = <<>> \/ Trimmed(path_input) = <<>>)) =>
        /\ rg = "notrun"
        /\ results = <<>>
        /\ tree = <<>>
        /\ files = <<>>

\* C8, its case: a keyword of whitespace only
C8_Witness ==
    /\ last = "search" /\ query_input = <<" ">> /\ path_input # <<>>
    /\ hadItems /\ rg = "notrun"

\* what the setting is after a step on which searches in the set saving
\* write their trimmed root path, and a browse its chosen directory
SettingAfter(saving) ==
    settings' = IF last' = "search" /\ saving THEN Trimmed(path_input')
                ELSE IF last' = "browse" /\ dialog' # <<>> THEN dialog'
                ELSE settings

\* the root-path field starts as the setting, and after that only the user's
\* edits and the browse dialog change it
ReadAtStartup ==
    /\ last' \notin {"edit", "browse"} => path_input' = path_input
    /\ (last' = "browse" /\ dialog' # <<>>) => path_input' = dialog'

\* C9 as stated: the setting is the root path of the most recent search
\* triggered, or the directory chosen last in the browse dialog, whichever
\* came last; it is read at startup only.
C9_WrittenOnEverySearch ==
    /\ path_input = settings
    /\ [][SettingAfter(TRUE) /\ ReadAtStartup]_vars

\* C9 amended: the setting is the trimmed root path of the most recent search
\* triggered with a keyword and a root path that are not empty once trimmed
\* (whether or not ripgrep succeeded), or the directory chosen last in the
\* browse dialog, whichever came last; it is read at startup only.
C9_WrittenOnCheckedSearch ==
    /\ path_input = settings
    /\ [][ /\ SettingAfter(Trimmed(query_input') # <<>> /\ Trimmed(path_input') # <<>>)
           /\ ReadAtStartup ]_vars

\* C9, its case: a failed run has saved a root path that only the field held
C9_Witness ==
    /\ last = "search" /\ rg = "nonzero"
    /\ settings = <<"/", "r", ":", "s">>

\* C10: activating a match item runs the editor on that match's file path
\* and line number, activating a file item runs it on the file's path
\* without a line number, whatever the root path.
C10_RoundTrip ==
    last = "open" =>
        LET i == item[1]
            j == item[2]
        IN  editor = IF j = 0
                     THEN [goto |-> FALSE, filepath |-> files[i].path, lineno |-> <<>>]
                     ELSE [goto |-> TRUE, filepath |-> files[i].path,
                           lineno |-> str(files[i].lines[j][1])]

====
